---- MODULE Spec2Model ----
(***************************************************************************)
(* ConfigurableDistill / FpnTeacherDistill (mmrazor).                      *)
(*                                                                         *)
(* The model follows                                                       *)
(*   src/mmrazor/models/algorithms/distill/configurable/                   *)
(*       configurable_distill.py   (construction, validation, driver)      *)
(*       fpn_teacher_distill.py    (one training step, loss())             *)
(*                                                                         *)
(* Python values are encoded as follows.                                   *)
(*   a name (str)            a tuple of one-character strings, so that     *)
(*                           `'loss' in name` is a real substring search   *)
(*   loss_forward_mappings   [kind, len, items]: kind is the Python type,  *)
(*                           items the dict's (key, value) pairs in        *)
(*                           iteration order, len the value's len()        *)
(*   a forward mapping       [kind, items], items = <<[key, info], ...>>   *)
(*   a record_info dict      [has, recorder, from_student, record_idx,     *)
(*                           data_idx]; has is the dict's key set          *)
(***************************************************************************)
EXTENDS Integers, Sequences, FiniteSets, TLC

VARIABLES
    distill_losses_cfg,        \* __init__ argument distill_losses: the names, in order
    loss_forward_mappings_cfg, \* __init__ argument loss_forward_mappings
    phase,                     \* "new" | "built" | "constructed" | "failed"
    error,                     \* the condition __init__ raised, or "none"
    warned,                    \* the names warnings.warn was called for, in order
    distill_losses,            \* self.distill_losses: the built names, in order
    loss_forward_mappings,     \* self.loss_forward_mappings: [set, items]
    last_check,                \* the _check_loss_forward_mappings call of the latest
                               \* operation, if it made one
    teacher_trainable,         \* self.teacher_trainable
    dm_ref,                    \* what self.delivery_manager resolves to
    override_data,             \* the override flag of each delivery manager
    active,                    \* the managers whose scope is entered
    populated,                 \* the recorder managers whose recorders hold data
    pc,                        \* the position inside loss()
    steps,                     \* the number of loss() calls begun
    step_result,               \* how the latest loss() call ended
    last_compute,              \* the compute_distill_losses call of the latest
                               \* operation, if it made one
    invoked                    \* the loss modules called so far

vars == <<distill_losses_cfg, loss_forward_mappings_cfg, phase, error, warned,
          distill_losses, loss_forward_mappings, last_check, teacher_trainable,
          dm_ref, override_data, active, populated, pc, steps, step_result,
          last_compute, invoked>>

(***************************************************************************)
(* Bounds                                                                  *)
(***************************************************************************)
\* the record locations a loss_forward_mappings holds in total
MaxRefs == 2

\* the loss() calls made on one instance
MaxSteps == 2

\* the length of a loss name drawn for build_distill_losses alone
MaxNameLen == 4

(***************************************************************************)
(* Names                                                                   *)
(***************************************************************************)
loss_kl == <<"l", "o", "s", "s", "_", "k", "l">>

kd_stat == <<"k", "d", "_", "s", "t", "a", "t">>

LossNames == {loss_kl, kd_stat}

ArgNames == {"preds_S", "preds_T", "x"}

\* signature(loss_module.forward).parameters.keys() of the module built for a name
Sig(loss_name) == IF loss_name = loss_kl THEN {"preds_S", "preds_T"} ELSE {"x"}

\* the recorders each RecorderManager owns (its .recorders keys)
Recorders(manager) ==
    CASE manager = "student_recorders" -> {"fc", "bb"}
      [] manager = "teacher_recorders" -> {"fc", "nk"}
      [] OTHER -> {"fc"}

\* the managers a caller may pass for each side: the instance's own, or another one
StudentSide == {"student_recorders", "aux_recorders"}

TeacherSide == {"teacher_recorders", "aux_recorders"}

PyBool == {"True", "False"}

(***************************************************************************)
(* build_distill_losses                                                    *)
(***************************************************************************)
LossWord == <<"l", "o", "s", "s">>

RECURSIVE FindFrom(_, _, _)
\* the scan of `sub in name` from offset i
FindFrom(sub, name, i) ==
    IF i + Len(sub) - 1 > Len(name) THEN FALSE
    ELSE IF SubSeq(name, i, i + Len(sub) - 1) = sub THEN TRUE
    ELSE FindFrom(sub, name, i + 1)

\* faulty variant: the scan starts one character late
NeedsWarningLateScan(loss_name) == ~FindFrom(LossWord, loss_name, 2)

\* 'loss' not in loss_name
NeedsWarning(loss_name) == ~FindFrom(LossWord, loss_name, 1)

RECURSIVE BuildLoop(_, _, _)
\* the loop over losses.items(): acc = [warned, distill_losses]
BuildLoop(losses, i, acc) ==
    IF i > Len(losses) THEN acc
    ELSE BuildLoop(losses, i + 1,
            [warned |-> IF NeedsWarning(losses[i])
                        THEN Append(acc.warned, losses[i]) ELSE acc.warned,
             distill_losses |-> Append(acc.distill_losses, losses[i])])

build_distill_losses(losses) ==
    BuildLoop(losses, 1, [warned |-> <<>>, distill_losses |-> <<>>])

Range(s) == {s[i] : i \in 1..Len(s)}

(***************************************************************************)
(* _check_loss_forward_mappings                                            *)
(***************************************************************************)
\* faulty variant: the forward_key is not checked against the signature
CheckRecordInfoAnyKey(forward_key, record_info, loss_forward_keys) ==
    IF "recorder" \notin record_info.has THEN "MalformedLocation"
    ELSE IF "from_student" \notin record_info.has THEN "MalformedLocation"
    ELSE IF record_info.from_student \notin PyBool THEN "TypeMismatch"
    ELSE IF record_info.from_student = "True"
         THEN IF record_info.recorder \in Recorders("student_recorders")
              THEN "ok" ELSE "UnknownRecorder"
         ELSE IF record_info.recorder \in Recorders("teacher_recorders")
              THEN "ok" ELSE "UnknownRecorder"

\* the checks of one (forward_key, record_info) pair, lines 220-248
CheckRecordInfo(forward_key, record_info, loss_forward_keys) ==
    IF forward_key \notin loss_forward_keys THEN "UnknownArgument"
    ELSE IF "recorder" \notin record_info.has THEN "MalformedLocation"
    ELSE IF "from_student" \notin record_info.has THEN "MalformedLocation"
    ELSE IF record_info.from_student \notin PyBool THEN "TypeMismatch"
    ELSE IF record_info.from_student = "True"
         THEN IF record_info.recorder \in Recorders("student_recorders")
              THEN "ok" ELSE "UnknownRecorder"
         ELSE IF record_info.recorder \in Recorders("teacher_recorders")
              THEN "ok" ELSE "UnknownRecorder"

RECURSIVE CheckForwardKeys(_, _, _)
\* the loop over forward_mappings.items(), line 219
CheckForwardKeys(items, i, loss_forward_keys) ==
    IF i > Len(items) THEN "ok"
    ELSE LET r == CheckRecordInfo(items[i].key, items[i].info, loss_forward_keys)
         IN IF r # "ok" THEN r ELSE CheckForwardKeys(items, i + 1, loss_forward_keys)

\* faulty variant: the number of keys is not compared with the number of parameters
CheckLossEntryNoCount(losses, loss_name, forward_mappings) ==
    IF loss_name \notin Range(losses) THEN "MissingLoss"
    ELSE IF forward_mappings.kind # "dict" THEN "TypeError"
    ELSE CheckForwardKeys(forward_mappings.items, 1, Sig(loss_name))

\* one iteration of the loop over loss_forward_mappings.items(), lines 205-248
CheckLossEntry(losses, loss_name, forward_mappings) ==
    IF loss_name \notin Range(losses) THEN "MissingLoss"
    ELSE IF forward_mappings.kind # "dict" THEN "TypeError"
    ELSE IF Cardinality(Sig(loss_name)) # Len(forward_mappings.items)
         THEN "SignatureMismatch"
    ELSE CheckForwardKeys(forward_mappings.items, 1, Sig(loss_name))

RECURSIVE CheckLossEntries(_, _, _)
\* the loop over loss_forward_mappings.items(), line 204
CheckLossEntries(losses, items, i) ==
    IF i > Len(items) THEN "ok"
    ELSE LET r == CheckLossEntry(losses, items[i].name, items[i].fm)
         IN IF r # "ok" THEN r ELSE CheckLossEntries(losses, items, i + 1)

\* the recorder checks read self.student_recorders and self.teacher_recorders;
\* the two manager parameters are not read
check_loss_forward_mappings(losses, mappings, student_recorders, teacher_recorders) ==
    IF mappings.kind # "dict" THEN "TypeError"
    ELSE CheckLossEntries(losses, mappings.items, 1)

\* faulty variant: `if loss_forward_mappings is not None:`
TruthyNotNone(mappings) == mappings.kind # "NoneType"

\* `if loss_forward_mappings:`
Truthy(mappings) == mappings.len > 0

(***************************************************************************)
(* get_record / compute_distill_losses                                     *)
(***************************************************************************)
GetRecordParams == {"recorder", "from_student", "record_idx", "data_idx"}

\* the value recorder_.get_record_data(record_idx, data_idx) returns
RecordData(manager, recorder, record_idx, data_idx) ==
    <<manager, recorder, record_idx, data_idx>>

\* self.get_record(**record_info): [error, value]
get_record(record_info, pop) ==
    LET manager == IF record_info.from_student = "False"
                   THEN "teacher_recorders" ELSE "student_recorders"
        record_idx == IF "record_idx" \in record_info.has
                      THEN record_info.record_idx ELSE 0
        data_idx == IF "data_idx" \in record_info.has
                    THEN record_info.data_idx ELSE "None"
        none == <<"", "", 0, "">>
    IN IF ~(record_info.has \subseteq GetRecordParams)
          \/ ~({"recorder", "from_student"} \subseteq record_info.has)
       THEN [error |-> "TypeError", value |-> none]
       ELSE IF record_info.recorder \notin Recorders(manager)
       THEN [error |-> "NotFound", value |-> none]
       ELSE IF manager \notin pop
       THEN [error |-> "RecorderNotPopulated", value |-> none]
       ELSE [error |-> "none",
             value |-> RecordData(manager, record_info.recorder, record_idx, data_idx)]

RECURSIVE ForwardKwargsError(_, _, _)
\* the first get_record failure of the loop at line 181, or "none"
ForwardKwargsError(items, i, pop) ==
    IF i > Len(items) THEN "none"
    ELSE LET r == get_record(items[i].info, pop)
         IN IF r.error # "none" THEN r.error ELSE ForwardKwargsError(items, i + 1, pop)

\* forward_kwargs once the loop at line 181 has ended
ForwardKwargs(items, pop) ==
    [k \in {items[i].key : i \in 1..Len(items)} |->
        get_record(items[CHOOSE i \in 1..Len(items) : items[i].key = k].info, pop).value]

RECURSIVE ComputeLoop(_, _, _, _, _)
\* the loop over loss_forward_mappings.items(), line 179:
\* acc = [error, losses, invoked]
ComputeLoop(modules, items, i, pop, acc) ==
    IF i > Len(items) THEN acc
    ELSE LET e == items[i]
             kerr == ForwardKwargsError(e.fm.items, 1, pop)
         IN IF kerr # "none" THEN [acc EXCEPT !.error = kerr]
            ELSE IF e.name \notin Range(modules) THEN [acc EXCEPT !.error = "KeyError"]
            ELSE LET kw == ForwardKwargs(e.fm.items, pop)
                 IN IF DOMAIN kw # Sig(e.name)
                    THEN [acc EXCEPT !.error = "TypeError"]
                    ELSE ComputeLoop(modules, items, i + 1, pop,
                            [error |-> "none",
                             losses |-> acc.losses \cup
                                 {[name |-> e.name, module |-> e.name, kwargs |-> kw]},
                             invoked |-> acc.invoked \cup {e.name}])

\* get_record reads self.student_recorders and self.teacher_recorders;
\* the two manager parameters are not read
compute_distill_losses(modules, mappings, student_recorders, teacher_recorders, pop) ==
    ComputeLoop(modules, mappings, 1, pop,
                [error |-> "none", losses |-> {}, invoked |-> {}])

(***************************************************************************)
(* The inputs                                                              *)
(***************************************************************************)
Loc(has, recorder, from_student, record_idx, data_idx) ==
    [has |-> has, recorder |-> recorder, from_student |-> from_student,
     record_idx |-> record_idx, data_idx |-> data_idx]

\* record_info dicts: two well-formed ones, and one for each way of being wrong
RecordInfos ==
    { Loc({"recorder", "from_student"}, "fc", "True", 0, "None"),
      Loc({"recorder", "from_student", "record_idx", "data_idx"}, "nk", "False", 1, "0"),
      Loc({"recorder", "from_student"}, "bb", "False", 0, "None"),
      Loc({"from_student"}, "", "True", 0, "None"),
      Loc({"recorder"}, "fc", "", 0, "None"),
      Loc({"recorder", "from_student"}, "fc", "int", 0, "None"),
      Loc({"recorder", "from_student", "extra"}, "fc", "True", 0, "None") }

ForwardItems == {[key |-> k, info |-> r] : k \in ArgNames, r \in RecordInfos}

DistinctKeys(items) ==
    \A i, j \in 1..Len(items) : items[i].key = items[j].key => i = j

\* the dicts {forward_key: record_info} of n items
ForwardMappingsOfLen(n) ==
    {[kind |-> "dict", items |-> s] : s \in {t \in [1..n -> ForwardItems] : DistinctKeys(t)}}

\* the values of loss_forward_mappings of at most n record locations: dicts, and a list
ForwardMappingsUpTo(n) ==
    {[kind |-> "list", items |-> <<>>]} \cup UNION {ForwardMappingsOfLen(k) : k \in 0..n}

\* evaluated once: the forward mappings of at most n record locations, n <= MaxRefs
FMUpTo == [n \in 0..MaxRefs |-> ForwardMappingsUpTo(n)]

Entry(loss_name, fm) == [name |-> loss_name, fm |-> fm]

Dict(items) == [kind |-> "dict", len |-> Len(items), items |-> items]

\* None, an empty list and a list of one element
NonDictMappings ==
    { [kind |-> "NoneType", len |-> 0, items |-> <<>>],
      [kind |-> "list", len |-> 0, items |-> <<>>],
      [kind |-> "list", len |-> 1, items |-> <<>>] }

\* m is a value of loss_forward_mappings: not a dict, or a dict
\* {loss_name: forward_mappings} of at most MaxRefs record locations in total
IsMappingValue(m) ==
    \/ m \in NonDictMappings \cup {Dict(<<>>)}
    \/ \E n \in LossNames, f \in FMUpTo[MaxRefs] : m = Dict(<<Entry(n, f)>>)
    \/ \E n1 \in LossNames, f1 \in FMUpTo[MaxRefs] :
          \E n2 \in LossNames \ {n1}, f2 \in FMUpTo[MaxRefs - Len(f1.items)] :
             m = Dict(<<Entry(n1, f1), Entry(n2, f2)>>)

DistinctSeqs(S, n) ==
    UNION { {s \in [1..k -> S] : \A i, j \in 1..k : s[i] = s[j] => i = j} : k \in 0..n }

\* the loss configurations of the constructor
LossConfigs == DistinctSeqs(LossNames, Cardinality(LossNames))

NoCall == [by |-> "none", student_recorders |-> "", teacher_recorders |-> "",
           result |-> ""]

NoCompute == [by |-> "none", student_recorders |-> "", teacher_recorders |-> "",
              error |-> "", losses |-> {}]

DeliveryManagers == {"distill_deliveries", "delivery_manager"}

InitCommon ==
    /\ phase = "new"
    /\ error = "none"
    /\ warned = <<>>
    /\ distill_losses = <<>>
    /\ loss_forward_mappings = [set |-> FALSE, items |-> <<>>]
    /\ last_check = NoCall
    /\ teacher_trainable = FALSE
    /\ dm_ref = "missing"
    /\ override_data = [m \in DeliveryManagers |-> FALSE]
    /\ active = {}
    /\ populated = {"aux_recorders"}
    /\ pc = "idle"
    /\ steps = 0
    /\ step_result = "none"
    /\ last_compute = NoCompute
    /\ invoked = {}

Init ==
    /\ distill_losses_cfg \in LossConfigs
    /\ IsMappingValue(loss_forward_mappings_cfg)
    /\ InitCommon

(***************************************************************************)
(* ConfigurableDistill.__init__                                            *)
(***************************************************************************)
\* what self.delivery_manager may resolve to: ConfigurableDistill.__init__ assigns
\* self.distill_deliveries alone
DeliveryManagerBindings == {"missing", "distill_deliveries", "delivery_manager"}

\* the override flag DistillDeliveryManager(distill_deliveries) starts with: the
\* constructor is not part of these files, and no line of them sets the flag of
\* self.distill_deliveries
InitialOverride == BOOLEAN

Construct ==
    /\ phase = "new"
    /\ LET built == build_distill_losses(distill_losses_cfg)
           r == IF Truthy(loss_forward_mappings_cfg)
                THEN check_loss_forward_mappings(built.distill_losses,
                         loss_forward_mappings_cfg,
                         "student_recorders", "teacher_recorders")
                ELSE "ok"
       IN /\ warned' = built.warned
          /\ distill_losses' = built.distill_losses
          /\ last_check' = IF Truthy(loss_forward_mappings_cfg)
                           THEN [by |-> "init",
                                 student_recorders |-> "student_recorders",
                                 teacher_recorders |-> "teacher_recorders",
                                 result |-> r]
                           ELSE NoCall
          /\ IF r = "ok"
             THEN /\ phase' = "constructed"
                  /\ error' = "none"
                  /\ loss_forward_mappings' =
                        [set |-> TRUE,
                         items |-> IF Truthy(loss_forward_mappings_cfg)
                                   THEN loss_forward_mappings_cfg.items ELSE <<>>]
                  /\ teacher_trainable' \in BOOLEAN
                  /\ dm_ref' \in DeliveryManagerBindings
                  /\ \E b \in InitialOverride :
                        override_data' = [override_data EXCEPT !["distill_deliveries"] = b]
             ELSE /\ phase' = "failed"
                  /\ error' = r
                  /\ UNCHANGED <<loss_forward_mappings, teacher_trainable, dm_ref,
                                 override_data>>
    /\ UNCHANGED <<distill_losses_cfg, loss_forward_mappings_cfg, active, populated,
                   pc, steps, step_result, last_compute, invoked>>

\* a direct call of _check_loss_forward_mappings on a built instance, with the
\* stored mapping and any two recorder managers
CheckCall ==
    /\ phase = "constructed"
    /\ pc = "idle"
    /\ \E s \in StudentSide, t \in TeacherSide :
          last_check' = [by |-> "call", student_recorders |-> s,
                         teacher_recorders |-> t,
                         result |-> check_loss_forward_mappings(distill_losses,
                                       Dict(loss_forward_mappings.items), s, t)]
    /\ last_compute' = NoCompute
    /\ UNCHANGED <<distill_losses_cfg, loss_forward_mappings_cfg, phase, error, warned,
                   distill_losses, loss_forward_mappings, teacher_trainable, dm_ref,
                   override_data, active, populated, pc, steps, step_result, invoked>>

\* a direct call of compute_distill_losses on a built instance, with the stored
\* mapping and any two recorder managers
ComputeCall ==
    /\ phase = "constructed"
    /\ pc = "idle"
    /\ \E s \in StudentSide, t \in TeacherSide :
          LET r == compute_distill_losses(distill_losses, loss_forward_mappings.items,
                                          s, t, populated)
          IN /\ last_compute' = [by |-> "call", student_recorders |-> s,
                                 teacher_recorders |-> t,
                                 error |-> r.error, losses |-> r.losses]
             /\ invoked' = invoked \cup r.invoked
    /\ last_check' = NoCall
    /\ UNCHANGED <<distill_losses_cfg, loss_forward_mappings_cfg, phase, error, warned,
                   distill_losses, loss_forward_mappings, teacher_trainable, dm_ref,
                   override_data, active, populated, pc, steps, step_result>>

(***************************************************************************)
(* FpnTeacherDistill.loss                                                  *)
(***************************************************************************)
\* RecorderManager / DistillDeliveryManager __enter__: the managers become active
Activate(act, managers) == act \cup managers

\* RecorderManager / DistillDeliveryManager __exit__: the managers become inactive
Deactivate(act, managers) == act \ managers

\* faulty variant: enter, run and exit in sequence, so that a raise skips the exit
WithExitOnReturnOnly(act, managers, raised) ==
    IF raised THEN act ELSE Deactivate(act, managers)

\* a with statement calls __exit__ on both paths, return and raise
WithExit(act, managers, raised) == Deactivate(act, managers)

\* the delivery manager of the with statement around the teacher forward pass
TeacherDelivery(trainable, ref) == IF trainable THEN ref ELSE "distill_deliveries"

\* the delivery manager of the with statement around the student forward pass
StudentDelivery(ref) == ref

\* lines 29-32: self.delivery_manager.override_data = False
LossBegin ==
    /\ phase = "constructed"
    /\ pc = "idle"
    /\ steps < MaxSteps
    /\ steps' = steps + 1
    /\ last_check' = NoCall
    /\ last_compute' = NoCompute
    /\ IF dm_ref = "missing"
       THEN /\ step_result' = "AttributeError"
            /\ UNCHANGED <<pc, override_data>>
       ELSE /\ step_result' = "running"
            /\ override_data' = [override_data EXCEPT ![dm_ref] = FALSE]
            /\ pc' = "teacher_enter"
    /\ UNCHANGED <<distill_losses_cfg, loss_forward_mappings_cfg, phase, error, warned,
                   distill_losses, loss_forward_mappings, teacher_trainable, dm_ref,
                   active, populated, invoked>>

\* lines 33-39: the with statement around the teacher forward pass is entered
TeacherEnter ==
    /\ pc = "teacher_enter"
    /\ active' = Activate(active, {"teacher_recorders",
                                   TeacherDelivery(teacher_trainable, dm_ref)})
    /\ pc' = "teacher_scope"
    /\ UNCHANGED <<distill_losses_cfg, loss_forward_mappings_cfg, phase, error, warned,
                   distill_losses, loss_forward_mappings, last_check, teacher_trainable,
                   dm_ref, override_data, populated, steps, step_result, last_compute,
                   invoked>>

\* lines 37 / 40-41: the teacher forward pass returns or raises, and the with
\* statement is left
TeacherPass ==
    /\ pc = "teacher_scope"
    /\ \E raised \in BOOLEAN :
          /\ active' = WithExit(active, {"teacher_recorders",
                                         TeacherDelivery(teacher_trainable, dm_ref)}, raised)
          /\ IF raised
             THEN /\ pc' = "idle"
                  /\ step_result' = "teacher_raised"
                  /\ UNCHANGED populated
             ELSE /\ pc' = "override_on"
                  /\ populated' = populated \cup {"teacher_recorders"}
                  /\ UNCHANGED step_result
    /\ UNCHANGED <<distill_losses_cfg, loss_forward_mappings_cfg, phase, error, warned,
                   distill_losses, loss_forward_mappings, last_check, teacher_trainable,
                   dm_ref, override_data, steps, last_compute, invoked>>

\* line 45: self.delivery_manager.override_data = True
OverrideOn ==
    /\ pc = "override_on"
    /\ override_data' = [override_data EXCEPT ![dm_ref] = TRUE]
    /\ pc' = "student_enter"
    /\ UNCHANGED <<distill_losses_cfg, loss_forward_mappings_cfg, phase, error, warned,
                   distill_losses, loss_forward_mappings, last_check, teacher_trainable,
                   dm_ref, active, populated, steps, step_result, last_compute, invoked>>

\* line 46: the with statement around the student forward pass is entered
StudentEnter ==
    /\ pc = "student_enter"
    /\ active' = Activate(active, {"student_recorders", StudentDelivery(dm_ref)})
    /\ pc' = "student_scope"
    /\ UNCHANGED <<distill_losses_cfg, loss_forward_mappings_cfg, phase, error, warned,
                   distill_losses, loss_forward_mappings, last_check, teacher_trainable,
                   dm_ref, override_data, populated, steps, step_result, last_compute,
                   invoked>>

\* lines 47-48: the student forward pass returns or raises, and the with statement
\* is left
StudentPass ==
    /\ pc = "student_scope"
    /\ \E raised \in BOOLEAN :
          /\ active' = WithExit(active, {"student_recorders", StudentDelivery(dm_ref)},
                                raised)
          /\ IF raised
             THEN /\ pc' = "idle"
                  /\ step_result' = "student_raised"
                  /\ UNCHANGED populated
             ELSE /\ pc' = "distill"
                  /\ populated' = populated \cup {"student_recorders"}
                  /\ UNCHANGED step_result
    /\ UNCHANGED <<distill_losses_cfg, loss_forward_mappings_cfg, phase, error, warned,
                   distill_losses, loss_forward_mappings, last_check, teacher_trainable,
                   dm_ref, override_data, steps, last_compute, invoked>>

\* lines 49-57: the distillation driver runs on the instance's own managers, and
\* loss() returns or propagates the driver's failure
Distill ==
    /\ pc = "distill"
    /\ LET r == compute_distill_losses(distill_losses, loss_forward_mappings.items,
                                       "student_recorders", "teacher_recorders",
                                       populated)
       IN /\ last_compute' = [by |-> "loss", student_recorders |-> "student_recorders",
                              teacher_recorders |-> "teacher_recorders",
                              error |-> r.error, losses |-> r.losses]
          /\ invoked' = invoked \cup r.invoked
          /\ step_result' = IF r.error = "none" THEN "returned" ELSE r.error
    /\ pc' = "idle"
    /\ UNCHANGED <<distill_losses_cfg, loss_forward_mappings_cfg, phase, error, warned,
                   distill_losses, loss_forward_mappings, last_check, teacher_trainable,
                   dm_ref, override_data, active, populated, steps>>

Next ==
    \/ Construct
    \/ CheckCall
    \/ ComputeCall
    \/ LossBegin
    \/ TeacherEnter
    \/ TeacherPass
    \/ OverrideOn
    \/ StudentEnter
    \/ StudentPass
    \/ Distill

Spec == Init /\ [][Next]_vars

(***************************************************************************)
(* build_distill_losses alone, over names drawn from an alphabet           *)
(***************************************************************************)
NameChars == {"l", "o", "s"}

BuildNames == UNION {[1..n -> NameChars] : n \in 1..MaxNameLen}

BuildInit ==
    /\ distill_losses_cfg \in DistinctSeqs(BuildNames, Cardinality(LossNames))
    /\ loss_forward_mappings_cfg = Dict(<<>>)
    /\ InitCommon

Build ==
    /\ phase = "new"
    /\ phase' = "built"
    /\ LET built == build_distill_losses(distill_losses_cfg)
       IN /\ warned' = built.warned
          /\ distill_losses' = built.distill_losses
    /\ UNCHANGED <<distill_losses_cfg, loss_forward_mappings_cfg, error,
                   loss_forward_mappings, last_check, teacher_trainable, dm_ref,
                   override_data, active, populated, pc, steps, step_result,
                   last_compute, invoked>>

BuildNext == Build

BuildSpec == BuildInit /\ [][BuildNext]_vars

(***************************************************************************)
(* What the claims speak of, stated without the code's loops               *)
(***************************************************************************)
Built == Range(distill_losses)

Constructed == phase \in {"constructed", "failed"}

\* the mapping the latest _check_loss_forward_mappings call was given
CheckedMapping ==
    IF last_check.by = "init" THEN loss_forward_mappings_cfg
    ELSE Dict(loss_forward_mappings.items)

KeysOf(fm) == {fm.items[i].key : i \in 1..Len(fm.items)}

InfoWellFormed(info) ==
    {"recorder", "from_student"} \subseteq info.has /\ info.from_student \in PyBool

\* the manager a record location's from_student flag selects among (s, t)
SideOf(info, s, t) == IF info.from_student = "True" THEN s ELSE t

ItemValid(item, loss_name) ==
    /\ item.key \in Sig(loss_name)
    /\ InfoWellFormed(item.info)
    /\ item.info.recorder
          \in Recorders(SideOf(item.info, "student_recorders", "teacher_recorders"))

EntryValid(e) ==
    /\ e.name \in Built
    /\ e.fm.kind = "dict"
    /\ KeysOf(e.fm) = Sig(e.name)
    /\ \A i \in 1..Len(e.fm.items) : ItemValid(e.fm.items[i], e.name)

CountMismatch(e) ==
    /\ e.name \in Built
    /\ e.fm.kind = "dict"
    /\ Len(e.fm.items) # Cardinality(Sig(e.name))

EarlierValid(m, i) == \A j \in 1..(i - 1) : EntryValid(m.items[j])

\* every record location of m, with the entry it belongs to
Locations(m) ==
    {[name |-> m.items[i].name, item |-> m.items[i].fm.items[j]] :
        <<i, j>> \in {p \in (1..Len(m.items)) \X (1..MaxRefs + 1) :
                         p[2] <= Len(m.items[p[1]].fm.items)}}

(***************************************************************************)
(* C1 (as claimed; the code accepts a mapping that leaves a built loss     *)
(* out): when every record location of M is well-formed and names a        *)
(* recorder of the side it declares, the validation __init__ runs succeeds *)
(* if and only if the keys of M are exactly the built loss names and each  *)
(* argument map's keys are exactly the parameters of its loss's forward.   *)
(***************************************************************************)
C1_ValidatesIffExactKeys ==
    (/\ last_check.by = "init"
     /\ loss_forward_mappings_cfg.kind = "dict"
     /\ \A l \in Locations(loss_forward_mappings_cfg) :
           /\ InfoWellFormed(l.item.info)
           /\ l.item.info.recorder
                 \in Recorders(SideOf(l.item.info, "student_recorders",
                                      "teacher_recorders")))
    => (last_check.result = "ok"
        <=> /\ {loss_forward_mappings_cfg.items[i].name :
                   i \in 1..Len(loss_forward_mappings_cfg.items)} = Built
            /\ \A i \in 1..Len(loss_forward_mappings_cfg.items) :
                  LET e == loss_forward_mappings_cfg.items[i]
                  IN e.fm.kind = "dict" /\ e.name \in Built /\ KeysOf(e.fm) = Sig(e.name))

(***************************************************************************)
(* C2 (as claimed; the code reads the instance's own managers and rejects  *)
(* an extra record-location field only here): when every recorder the      *)
(* stored mapping names is present and populated in the manager passed in  *)
(* for its side, compute_distill_losses returns one value per loss name of *)
(* the mapping, the loss module called with the data of those managers.    *)
(***************************************************************************)
ExpectedData(info, s, t) ==
    <<SideOf(info, s, t), info.recorder,
      IF "record_idx" \in info.has THEN info.record_idx ELSE 0,
      IF "data_idx" \in info.has THEN info.data_idx ELSE "None">>

ExpectedLosses(m, s, t) ==
    {[name |-> m.items[i].name, module |-> m.items[i].name,
      kwargs |-> [k \in KeysOf(m.items[i].fm) |->
                    ExpectedData((CHOOSE l \in Locations(m) :
                                     l.name = m.items[i].name /\ l.item.key = k).item.info,
                                 s, t)]] : i \in 1..Len(m.items)}

C2_ComputeUsesPassedManagers ==
    (/\ last_compute.by # "none"
     /\ \A l \in Locations(Dict(loss_forward_mappings.items)) :
           LET side == SideOf(l.item.info, last_compute.student_recorders,
                              last_compute.teacher_recorders)
           IN l.item.info.recorder \in Recorders(side) /\ side \in populated)
    => /\ last_compute.error = "none"
       /\ last_compute.losses =
             ExpectedLosses(Dict(loss_forward_mappings.items),
                            last_compute.student_recorders,
                            last_compute.teacher_recorders)

(***************************************************************************)
(* C3 (as claimed; an earlier entry of the mapping may fail first): if     *)
(* some argument map's size differs from its loss's parameter count,       *)
(* construction fails with SignatureMismatch, no mapping is stored and no  *)
(* loss module is invoked.                                                 *)
(***************************************************************************)
HasCountMismatch ==
    /\ loss_forward_mappings_cfg.kind = "dict"
    /\ \E i \in 1..Len(loss_forward_mappings_cfg.items) :
          CountMismatch(loss_forward_mappings_cfg.items[i])

C3_CountMismatchIsSignatureMismatch ==
    (Constructed /\ HasCountMismatch)
    => /\ phase = "failed"
       /\ error = "SignatureMismatch"
       /\ ~loss_forward_mappings.set
       /\ invoked = {}

(***************************************************************************)
(* C3 (amended): if some argument map's size differs from its loss's       *)
(* parameter count, construction fails, no mapping is stored and no loss   *)
(* module is invoked; the condition is SignatureMismatch exactly when the  *)
(* first entry of the mapping that is not valid is such an entry.          *)
(***************************************************************************)
C3_CountMismatchFailsConstruction ==
    (Constructed /\ HasCountMismatch)
    => /\ phase = "failed"
       /\ error # "none"
       /\ ~loss_forward_mappings.set
       /\ invoked = {}
       /\ \A i \in 1..Len(loss_forward_mappings_cfg.items) :
             (~EntryValid(loss_forward_mappings_cfg.items[i])
              /\ EarlierValid(loss_forward_mappings_cfg, i))
             => (error = "SignatureMismatch"
                 <=> CountMismatch(loss_forward_mappings_cfg.items[i]))

\* a count mismatch in the second entry, reported after a valid first entry
C3_Witness ==
    /\ phase = "failed"
    /\ error = "SignatureMismatch"
    /\ Len(loss_forward_mappings_cfg.items) = 2
    /\ EntryValid(loss_forward_mappings_cfg.items[1])
    /\ CountMismatch(loss_forward_mappings_cfg.items[2])

(***************************************************************************)
(* C4 (as claimed; the count check and earlier pairs come first): if an    *)
(* argument map has a key that is no parameter of its loss's forward, the  *)
(* validation fails and reports UnknownArgument.                           *)
(***************************************************************************)
UnknownArgAt(m, i, j) ==
    /\ m.items[i].name \in Built
    /\ m.items[i].fm.kind = "dict"
    /\ j <= Len(m.items[i].fm.items)
    /\ m.items[i].fm.items[j].key \notin Sig(m.items[i].name)

HasUnknownArg(m) ==
    /\ m.kind = "dict"
    /\ \E i \in 1..Len(m.items), j \in 1..(MaxRefs + 1) : UnknownArgAt(m, i, j)

C4_UnknownArgumentReported ==
    (last_check.by # "none" /\ HasUnknownArg(CheckedMapping))
    => last_check.result = "UnknownArgument"

(***************************************************************************)
(* C4 (amended): if an argument map has a key that is no parameter of its  *)
(* loss's forward, the validation fails; it reports UnknownArgument when   *)
(* the entries before that map are valid, the map has as many keys as the  *)
(* forward has parameters, and the pairs before that key pass their checks.*)
(***************************************************************************)
C4_UnknownArgumentFails ==
    (last_check.by # "none" /\ HasUnknownArg(CheckedMapping))
    => /\ last_check.result # "ok"
       /\ \A i \in 1..Len(CheckedMapping.items), j \in 1..(MaxRefs + 1) :
             (/\ UnknownArgAt(CheckedMapping, i, j)
              /\ EarlierValid(CheckedMapping, i)
              /\ Len(CheckedMapping.items[i].fm.items)
                    = Cardinality(Sig(CheckedMapping.items[i].name))
              /\ \A k \in 1..(j - 1) :
                    ItemValid(CheckedMapping.items[i].fm.items[k],
                              CheckedMapping.items[i].name))
             => last_check.result = "UnknownArgument"

\* an unknown key reported after a pair that passes, in a map of the right size
C4_Witness ==
    /\ last_check.by = "init"
    /\ last_check.result = "UnknownArgument"
    /\ \E i \in 1..Len(loss_forward_mappings_cfg.items) :
          /\ UnknownArgAt(loss_forward_mappings_cfg, i, 2)
          /\ ItemValid(loss_forward_mappings_cfg.items[i].fm.items[1],
                       loss_forward_mappings_cfg.items[i].name)

(***************************************************************************)
(* C5 (as claimed, and read in its favour: nothing else is wrong with the  *)
(* mapping, so that no earlier check can fail; the code looks the recorder *)
(* up in the instance's own managers): if a record location names a        *)
(* recorder absent from the manager that was passed in for the side its    *)
(* from_student flag selects, _check_loss_forward_mappings fails with      *)
(* UnknownRecorder.                                                        *)
(***************************************************************************)
ValidButForRecorders(m) ==
    /\ m.kind = "dict"
    /\ \A i \in 1..Len(m.items) :
          /\ m.items[i].name \in Built
          /\ m.items[i].fm.kind = "dict"
          /\ KeysOf(m.items[i].fm) = Sig(m.items[i].name)
    /\ \A l \in Locations(m) : InfoWellFormed(l.item.info)

C5_UnknownRecorderOfPassedManager ==
    (/\ last_check.by # "none"
     /\ ValidButForRecorders(CheckedMapping)
     /\ \E l \in Locations(CheckedMapping) :
           l.item.info.recorder
              \notin Recorders(SideOf(l.item.info, last_check.student_recorders,
                                      last_check.teacher_recorders)))
    => last_check.result = "UnknownRecorder"

(***************************************************************************)
(* C6 (as claimed; the validation lets a record location with an extra     *)
(* field through): the driver run by a training step of a constructed      *)
(* instance, its recorders populated, never fails because of the mapping.  *)
(***************************************************************************)
C6_NoMappingErrorAtStepTime ==
    last_compute.by = "loss" => last_compute.error \in {"none", "RecorderNotPopulated"}

(***************************************************************************)
(* C7 (as claimed; an empty value is never validated, and the loss-name    *)
(* check and earlier entries come first): construction fails with a        *)
(* TypeError whenever loss_forward_mappings is given and is not a dict,    *)
(* and whenever one of its values is not a dict.                           *)
(***************************************************************************)
HasNonDictValue ==
    /\ loss_forward_mappings_cfg.kind = "dict"
    /\ \E i \in 1..Len(loss_forward_mappings_cfg.items) :
          loss_forward_mappings_cfg.items[i].fm.kind # "dict"

C7_NonMappingIsTypeError ==
    (Constructed /\ (loss_forward_mappings_cfg.kind \notin {"dict", "NoneType"}
                     \/ HasNonDictValue))
    => (phase = "failed" /\ error \in {"TypeError", "TypeMismatch"})

(***************************************************************************)
(* C7 (amended): construction fails with a TypeError when                  *)
(* loss_forward_mappings is a non-empty value that is not a dict, and      *)
(* when one of its values is not a dict, names a built loss and follows    *)
(* only valid entries; a value that is not a dict fails construction in    *)
(* every case; None or an empty non-dict is not validated, and the         *)
(* instance stores an empty mapping.                                       *)
(***************************************************************************)
C7_TypeErrorWhenReached ==
    Constructed =>
       /\ (loss_forward_mappings_cfg.kind # "dict" /\ loss_forward_mappings_cfg.len > 0)
             => (phase = "failed" /\ error = "TypeError")
       /\ (loss_forward_mappings_cfg.kind # "dict" /\ loss_forward_mappings_cfg.len = 0)
             => (phase = "constructed" /\ loss_forward_mappings.set
                 /\ loss_forward_mappings.items = <<>>)
       /\ HasNonDictValue => phase = "failed"
       /\ \A i \in 1..Len(loss_forward_mappings_cfg.items) :
             (/\ loss_forward_mappings_cfg.kind = "dict"
              /\ loss_forward_mappings_cfg.items[i].fm.kind # "dict"
              /\ loss_forward_mappings_cfg.items[i].name \notin Built
              /\ EarlierValid(loss_forward_mappings_cfg, i))
             => (phase = "failed" /\ error = "MissingLoss")
       /\ \A i \in 1..Len(loss_forward_mappings_cfg.items) :
             (/\ loss_forward_mappings_cfg.kind = "dict"
              /\ loss_forward_mappings_cfg.items[i].fm.kind # "dict"
              /\ loss_forward_mappings_cfg.items[i].name \in Built
              /\ EarlierValid(loss_forward_mappings_cfg, i))
             => (phase = "failed" /\ error = "TypeError")

\* a value that is not a dict, reported after a valid first entry
C7_Witness ==
    /\ phase = "failed"
    /\ error = "TypeError"
    /\ Len(loss_forward_mappings_cfg.items) = 2
    /\ EntryValid(loss_forward_mappings_cfg.items[1])
    /\ loss_forward_mappings_cfg.items[2].fm.kind # "dict"

(***************************************************************************)
(* C8: when loss() is not running - before a step, after a step that       *)
(* returned, after a step whose teacher or student forward pass raised -   *)
(* no recorder or delivery manager is active.                              *)
(***************************************************************************)
C8_NoManagerLeftActive ==
    /\ pc = "idle" => active = {}
    /\ pc \in {"override_on", "student_enter", "distill"} => active = {}

\* a second step ended by its student forward pass raising, after a first step
\* that entered self.distill_deliveries around the teacher forward pass
C8_Witness ==
    /\ pc = "idle"
    /\ steps = 2
    /\ step_result = "student_raised"
    /\ ~teacher_trainable

(***************************************************************************)
(* C9: build_distill_losses warns once for each loss name that does not    *)
(* contain "loss" and never for one that does, and builds a module for     *)
(* every name of the configuration.                                        *)
(***************************************************************************)
ContainsLoss(name) ==
    \E i \in 1..Len(name) :
       /\ i + 3 <= Len(name)
       /\ name[i] = "l" /\ name[i + 1] = "o" /\ name[i + 2] = "s" /\ name[i + 3] = "s"

Occurrences(s, x) == Cardinality({i \in 1..Len(s) : s[i] = x})

C9_WarnsOncePerNameWithoutLoss ==
    phase = "built" =>
       /\ \A n \in Range(distill_losses_cfg) :
             Occurrences(warned, n) = IF ContainsLoss(n) THEN 0 ELSE 1
       /\ Range(warned) \subseteq Range(distill_losses_cfg)
       /\ Range(distill_losses) = Range(distill_losses_cfg)
       /\ Len(distill_losses) = Len(distill_losses_cfg)

\* a configuration of one name with "loss" and one without: one warning
C9_Witness ==
    /\ phase = "built"
    /\ Len(distill_losses_cfg) = 2
    /\ ContainsLoss(distill_losses_cfg[1])
    /\ ~ContainsLoss(distill_losses_cfg[2])
    /\ warned = <<distill_losses_cfg[2]>>

(***************************************************************************)
(* C10 (as claimed; without a trainable teacher the code enters            *)
(* self.distill_deliveries, whose flag the step did not set): the delivery *)
(* manager entered around the teacher forward pass has override_data false *)
(* before and during the pass, the one entered around the student forward  *)
(* pass has it true, the teacher pass precedes the student pass, and the   *)
(* driver runs after both scopes are left.                                 *)
(***************************************************************************)
C10_OverrideFlagOfEnteredManager ==
    /\ pc \in {"teacher_enter", "teacher_scope"}
          => ~override_data[TeacherDelivery(teacher_trainable, dm_ref)]
    /\ pc = "teacher_scope"
          => TeacherDelivery(teacher_trainable, dm_ref) \in active
    /\ pc \in {"student_enter", "student_scope"}
          => /\ override_data[StudentDelivery(dm_ref)]
             /\ "teacher_recorders" \in populated
    /\ pc = "student_scope" => StudentDelivery(dm_ref) \in active
    /\ pc = "distill"
          => active = {} /\ {"teacher_recorders", "student_recorders"} \subseteq populated

====
